---- MODULE Spec2Model ----
(***************************************************************************)
(* Multicast downlink scheduling core of loraserver: the multicast-group   *)
(* store (internal/storage/multicast_group.go), the per-group dispatch     *)
(* step (internal/downlink/multicast/multicast.go), the dispatcher loop    *)
(* and the enqueue pipeline that drive them.                               *)
(*                                                                         *)
(* The database is PostgreSQL in READ COMMITTED mode.  `queue' and `mg'    *)
(* hold the committed rows.  A dispatcher transaction keeps the ids of the *)
(* rows it has deleted but not yet committed in disp[t].del; a commit      *)
(* removes them from `queue', a rollback forgets them.  `lock' is the row  *)
(* lock on a multicast_group row taken by "for update".                    *)
(*                                                                         *)
(* Time is counted in units of config.SchedulerInterval.                   *)
(***************************************************************************)
EXTENDS Integers, Sequences, FiniteSets, TLC

\* ------------------------------------------------------------------ bounds
NumGroups == 2
NumGateways == 2
MaxRows == 2
MaxTime == 1
MaxEvents == 1
MaxFCnt == 0
MaxBatch == 2
PingPeriod == 2
NumDevices == 2

\* config.SchedulerInterval, the unit of time of the model
SchedulerInterval == 1

Groups == 1..NumGroups
Gateways == 1..NumGateways
Devices == 1..NumDevices
Dispatchers == {"d1", "d2"}
Enqueuers == {"e1", "e2"}
GroupTypes == {"B", "C"}
DataRates == {0, 1}
FPorts == {0, 1}
PayloadSizes == {2}

None == "none"
NullEmit == -1

VARIABLES
    now,        \* time.Now()
    batch,      \* the dispatcher's batch size (the count given to the select)
    mg,         \* table multicast_group: id -> row
    nextGroup,  \* the next fresh multicast-group id
    queue,      \* table multicast_queue: the set of committed rows
    nextID,     \* multicast_queue.id, a bigserial
    lock,       \* multicast_group row locks: id -> owner
    disp,       \* the dispatcher transactions
    enq,        \* the enqueue transactions
    sendFails,  \* number of SendTXPacket calls that failed so far
    cancels,    \* number of ticks cut short by a crash or a shutdown so far
    updates,    \* number of UpdateMulticastGroup calls so far
    hiSent,     \* history: per group, the row id and FCnt of the frame with
                \* the highest FCnt that SendTXPacket accepted (the latest)
    redeliver,  \* history: ids of the rows sent in a tick that rolled back
    expectFCnt, \* history: per group, FCnt at creation + successful enqueues
    enqErr,     \* the error an enqueue returns in this step, "nil" otherwise
    aborted,    \* history: ids of the queued rows a step aborted as oversize
    eventBudget, \* the number of failures and updates a behaviour may hold
    deviceMulticastGroup, \* table device_multicast_group: the set of rows
    apiRet      \* history: the latest call of the storage client, its error,
                \* the queue rows it removed and the value it returned

vars == <<now, batch, mg, nextGroup, queue, nextID, lock, disp, enq,
          sendFails, cancels, updates, hiSent, redeliver, expectFCnt,
          enqErr, aborted, eventBudget, deviceMulticastGroup, apiRet>>

\* the failed sends, cut-short ticks and group updates so far
Events == sendFails + cancels + updates

Min(a, b) == IF a <= b THEN a ELSE b
Max(a, b) == IF a >= b THEN a ELSE b

\* ------------------------------------------------------------ record shapes
NoGroup == [exists |-> FALSE, FCnt |-> 0, GroupType |-> "C", DR |-> 0]

NoItem == [id |-> 0, g |-> 0, gw |-> 0, fcnt |-> 0, fport |-> 0, size |-> 0,
           emit |-> NullEmit]

IdleDisp == [pc |-> "idle", sel |-> {}, todo |-> {}, cur |-> 0, qi |-> NoItem,
             del |-> {}, sent |-> {}]

\* the storage client has made no call yet
NoError == [op |-> "none", id |-> 0, err |-> "nil", n |-> 0, val |-> 0]

\* the record of a call: operation, multicast-group id, error, number of
\* multicast_queue rows removed, value returned
Return(op, id, err, n, val) ==
    [op |-> op, id |-> id, err |-> err, n |-> n, val |-> val]

NoFrame == [id |-> 0, fcnt |-> -1]

IdleEnq == [pc |-> "idle", g |-> 0, read |-> NoGroup]

\* ------------------------------------------------------------------ storage
\* type MulticastGroup: the columns the scheduling core reads
MulticastGroup(fcnt, type, dr) ==
    [exists |-> TRUE, FCnt |-> fcnt, GroupType |-> type, DR |-> dr]

\* type MulticastQueueItem, with the id and gateway_id columns the dispatch
\* step reads (ctx.QueueItem.ID, ctx.QueueItem.GatewayID)
MulticastQueueItem(id, g, gw, fcnt, fport, size, emit) ==
    [id |-> id, g |-> g, gw |-> gw, fcnt |-> fcnt, fport |-> fport,
     size |-> size, emit |-> emit]

\* a row of table device_multicast_group
DeviceMulticastGroup(id, devEUI) == <<id, devEUI>>

\* GetDevEUIsForMulticastGroup: the member devices of the group
GetDevEUIsForMulticastGroup(tbl, id) ==
    {m[2] : m \in {x \in tbl : x[1] = id}}

\* MulticastQueueItem.Validate
ValidateAnyFPort(qi) == TRUE

Validate(qi) == qi.fport # 0

\* CreateMulticastGroup: insert into multicast_group
CreateMulticastGroup(groups, id, rec) == [groups EXCEPT ![id] = rec]

\* "for update": the row lock GetMulticastGroup takes when forUpdate is set
GetMulticastGroupLock(lk, id, forUpdate, owner) ==
    IF forUpdate THEN [lk EXCEPT ![id] = owner] ELSE lk

\* UpdateMulticastGroup: update multicast_group set ... where id = $1
UpdateMulticastGroupAllRows(groups, id, rec) ==
    [h \in Groups |-> IF groups[h].exists THEN rec ELSE groups[h]]

UpdateMulticastGroup(groups, id, rec) ==
    IF groups[id].exists THEN [groups EXCEPT ![id] = rec] ELSE groups

\* DeleteMulticastGroup: delete from multicast_group where id = $1
DeleteMulticastGroup(groups, id) == [groups EXCEPT ![id] = NoGroup]

\* device_multicast_group.multicast_group_id references multicast_group on
\* delete cascade
CascadeDevices(tbl, id) == {m \in tbl : m[1] # id}

\* multicast_queue.multicast_group_id references multicast_group on delete cascade
CascadeQueueAll(q, id) == {}

CascadeQueue(q, id) == {r \in q : r.g # id}

\* CreateMulticastQueueItem: insert into multicast_queue
CreateMulticastQueueItemNoGateway(q, qi) ==
    IF Validate(qi) THEN q \cup {[qi EXCEPT !.gw = 0]} ELSE q

CreateMulticastQueueItem(q, qi) == IF Validate(qi) THEN q \cup {qi} ELSE q

\* DeleteMulticastQueueItem: the rows deleted by
\* "delete from multicast_queue where multicast_group_id = $1 and f_cnt = $2"
DeleteMulticastQueueItemAnyFCnt(q, id, fCnt) == {r \in q : r.g = id}

DeleteMulticastQueueItem(q, id, fCnt) == {r \in q : r.g = id /\ r.fcnt = fCnt}

\* FlushMulticastQueueForMulticastGroup: the rows deleted by
\* "delete from multicast_queue where multicast_group_id = $1"
FlushMulticastQueueForMulticastGroupAll(q, id) == q

FlushMulticastQueueForMulticastGroup(q, id) == {r \in q : r.g = id}

\* GetMulticastQueueItemsForMulticastGroup: the rows of the group; the
\* "order by f_cnt" is over this set
GetMulticastQueueItemsForMulticastGroup(q, id) == {r \in q : r.g = id}

\* GetNextMulticastQueueItemForMulticastGroup: "order by f_cnt limit 1";
\* the set of rows the query may return (rows that tie on f_cnt come in
\* any order), empty when the query returns no row
GetNextMulticastQueueItemForMulticastGroupUnordered(q, id) ==
    {r \in q : r.g = id}

GetNextMulticastQueueItemForMulticastGroupLast(q, id) ==
    {r \in q : r.g = id /\ \A o \in q : o.g = id => r.fcnt >= o.fcnt}

GetNextMulticastQueueItemForMulticastGroup(q, id) ==
    {r \in q : r.g = id /\ \A o \in q : o.g = id => r.fcnt <= o.fcnt}

\* GetMaxEmitAtTimeSinceGPSEpochForMulticastGroup:
\* coalesce(max(emit_at_time_since_gps_epoch), 0)
GetMaxEmitAtTimeSinceGPSEpochForMulticastGroupNoRows(q, id) == 0

GetMaxEmitAtTimeSinceGPSEpochForMulticastGroupAnyGroup(q, id) ==
    LET es == {r.emit : r \in {x \in q : x.emit # NullEmit}}
    IN  IF es = {} THEN 0 ELSE CHOOSE m \in es : \A e \in es : e <= m

GetMaxEmitAtTimeSinceGPSEpochForMulticastGroup(q, id) ==
    LET es == {r.emit : r \in {x \in q : x.g = id /\ x.emit # NullEmit}}
    IN  IF es = {} THEN 0 ELSE CHOOSE m \in es : \A e \in es : e <= m

\* the error of GetMulticastGroup: the select finds no row
GetMulticastGroupError(groups, id) ==
    IF groups[id].exists THEN "nil" ELSE "ErrDoesNotExist"

\* the error of UpdateMulticastGroup: ra == 0
UpdateMulticastGroupError(groups, id) ==
    IF groups[id].exists THEN "nil" ELSE "ErrDoesNotExist"

\* the error of DeleteMulticastGroup: ra == 0
DeleteMulticastGroupErrorNil(groups, id) == "nil"

DeleteMulticastGroupError(groups, id) ==
    IF groups[id].exists THEN "nil" ELSE "ErrDoesNotExist"

\* the error of CreateMulticastQueueItem: Validate, then the insert, which
\* the foreign key on multicast_group_id refuses for a missing group
CreateMulticastQueueItemError(groups, qi) ==
    IF ~Validate(qi) THEN "ErrInvalidFPort"
    ELSE IF ~groups[qi.g].exists THEN "insert error"
    ELSE "nil"

\* the error of DeleteMulticastQueueItem: ra == 0
DeleteMulticastQueueItemError(q, id, fCnt) ==
    IF DeleteMulticastQueueItem(q, id, fCnt) = {} THEN "ErrDoesNotExist" ELSE "nil"

\* the error of FlushMulticastQueueForMulticastGroup: ra == 0
FlushMulticastQueueForMulticastGroupErrorNil(q, id) == "nil"

FlushMulticastQueueForMulticastGroupError(q, id) ==
    IF FlushMulticastQueueForMulticastGroup(q, id) = {}
      THEN "ErrDoesNotExist" ELSE "nil"

\* the sequences without repetition over all the elements of S
Orderings(S) ==
    {s \in [1..Cardinality(S) -> S] :
        \A i, j \in 1..Cardinality(S) : i # j => s[i] # s[j]}

\* GetMulticastQueueItemsForMulticastGroup, as the slice it returns: the
\* group's rows "order by f_cnt"; rows that tie on f_cnt come in any order
GetMulticastQueueItemsForMulticastGroupByID(q, id) ==
    {s \in Orderings(GetMulticastQueueItemsForMulticastGroup(q, id)) :
        \A i, j \in 1..Len(s) : i < j => s[i].id < s[j].id}

GetMulticastQueueItemsForMulticastGroupOrdered(q, id) ==
    {s \in Orderings(GetMulticastQueueItemsForMulticastGroup(q, id)) :
        \A i, j \in 1..Len(s) : i < j => s[i].fcnt <= s[j].fcnt}

\* AddDeviceToMulticastGroup: insert into device_multicast_group; the
\* primary key (multicast_group_id, dev_eui) refuses a second row and the
\* foreign key a missing group
AddDeviceToMulticastGroupError(groups, tbl, devEUI, id) ==
    IF ~groups[id].exists THEN "insert error"
    ELSE IF DeviceMulticastGroup(id, devEUI) \in tbl THEN "ErrAlreadyExists"
    ELSE "nil"

AddDeviceToMulticastGroup(groups, tbl, devEUI, id) ==
    IF AddDeviceToMulticastGroupError(groups, tbl, devEUI, id) = "nil"
      THEN tbl \cup {DeviceMulticastGroup(id, devEUI)} ELSE tbl

\* RemoveDeviceFromMulticastGroup: delete from device_multicast_group where
\* dev_eui = $1 and multicast_group_id = $2; not found when no row matches
RemoveDeviceFromMulticastGroupError(tbl, devEUI, id) ==
    IF DeviceMulticastGroup(id, devEUI) \in tbl THEN "nil" ELSE "ErrDoesNotExist"

RemoveDeviceFromMulticastGroupAll(tbl, devEUI, id) ==
    {m \in tbl : m[2] # devEUI}

RemoveDeviceFromMulticastGroup(tbl, devEUI, id) ==
    tbl \ {DeviceMulticastGroup(id, devEUI)}

\* GetMulticastGroupsForDevEUI: the groups the device is a member of
GetMulticastGroupsForDevEUI(tbl, devEUI) ==
    {m[1] : m \in {x \in tbl : x[2] = devEUI}}

\* multicast_queue.gateway_id references gateway on delete cascade
CascadeGateway(q, gatewayID) == {r \in q : r.gw # gatewayID}

\* gpsEpochScheduleTime in GetMulticastGroupsWithQueueItems
GpsEpochScheduleTime(t) == t + SchedulerInterval * 2

\* the "exists (...)" condition of GetMulticastGroupsWithQueueItems on one
\* queue row of the group
QueueItemMatchesAny(group, r, t) == TRUE

QueueItemMatches(group, r, t) ==
    \/ group.GroupType = "C"
    \/ /\ group.GroupType = "B"
       /\ r.emit # NullEmit
       /\ r.emit <= GpsEpochScheduleTime(t)

\* the "where exists (...)" clause: the groups with a matching queue row
GroupsWithQueueItems(groups, q, t) ==
    {g \in Groups : groups[g].exists
                    /\ \E r \in q : r.g = g /\ QueueItemMatches(groups[g], r, t)}

\* "skip locked": a row locked by another transaction is passed over
SkipLockedOff(lk, g) == FALSE

SkipLocked(lk, g) == lk[g] # None

\* GetMulticastGroupsWithQueueItems: the results the query may return.  The
\* row locks are taken below the limit, so a skipped row does not count.
GetMulticastGroupsWithQueueItemsLimitFirst(groups, q, lk, t, count) ==
    LET all == GroupsWithQueueItems(groups, q, t)
    IN  {{g \in S : ~SkipLocked(lk, g)} :
            S \in {X \in SUBSET all : Cardinality(X) = Min(count, Cardinality(all))}}

GetMulticastGroupsWithQueueItems(groups, q, lk, t, count) ==
    LET free == {g \in GroupsWithQueueItems(groups, q, t) : ~SkipLocked(lk, g)}
    IN  {S \in SUBSET free : Cardinality(S) = Min(count, Cardinality(free))}

\* ------------------------------------------------- external collaborators
\* Band.GetMaxPayloadSizeForDataRateIndex: the band's size table
MaxPayloadSize(dr) == dr + 1

\* the multicast address of a group, which fixes its ping-slot offset
MCAddr(g) == g

\* classb.GetNextPingSlotAfter: the first ping slot of the group strictly
\* after `after'
GetNextPingSlotAtOrAfter(after, mcAddr) ==
    LET off == mcAddr % PingPeriod
    IN  after + ((off - (after % PingPeriod) + PingPeriod) % PingPeriod)

GetNextPingSlotAfter(after, mcAddr) ==
    LET off == mcAddr % PingPeriod
        c   == after + 1
    IN  c + ((off - (c % PingPeriod) + PingPeriod) % PingPeriod)

\* --------------------------------------------------------- dispatcher step
\* what a dispatcher transaction sees of multicast_queue: the committed rows
\* less its own uncommitted deletes
Visible(t) == {r \in queue : r.id \notin disp[t].del}

\* getNextQueueItem: the rows it may put in ctx.QueueItem
getNextQueueItemAnyGroup(t, g) ==
    UNION {GetNextMulticastQueueItemForMulticastGroup(Visible(t), o) : o \in Groups}

getNextQueueItem(t, g) == GetNextMulticastQueueItemForMulticastGroup(Visible(t), g)

\* removeQueueItem: the rows its delete removes, inside the transaction
removeQueueItem(t) ==
    DeleteMulticastQueueItem(Visible(t), disp[t].cur, disp[t].qi.fcnt)

\* validatePayloadSize: FALSE when it returns errAbort
validatePayloadSizeAnySize(group, qi) == TRUE

validatePayloadSize(group, qi) == qi.size <= MaxPayloadSize(group.DR)

\* setTXInfo and setPHYPayload: the frame handed to the gateway backend
setTXInfoAnyGateway(qi) ==
    [id |-> qi.id, g |-> qi.g, fcnt |-> qi.fcnt,
     MAC |-> CHOOSE gw \in Gateways : TRUE,
     Immediately |-> (qi.emit = NullEmit), TimeSinceGPSEpoch |-> qi.emit]

setTXInfoImmediately(qi) ==
    [id |-> qi.id, g |-> qi.g, fcnt |-> qi.fcnt, MAC |-> qi.gw,
     Immediately |-> TRUE, TimeSinceGPSEpoch |-> NullEmit]

setTXInfo(qi) ==
    [id |-> qi.id, g |-> qi.g, fcnt |-> qi.fcnt, MAC |-> qi.gw,
     Immediately |-> (qi.emit = NullEmit), TimeSinceGPSEpoch |-> qi.emit]

\* sendDownlinkData: the error it returns for the backend's answer
sendDownlinkDataIgnoreError(backendOK) == "nil"

sendDownlinkData(backendOK) == IF backendOK THEN "nil" ELSE "error"

\* the stage after one group's tasks have run to the end
StageAfterGroup(todo) == IF todo = {} THEN "commit" ELSE "next"

ReleaseLocks(owner) == [g \in Groups |-> IF lock[g] = owner THEN None ELSE lock[g]]

\* the transaction of a tick is rolled back: its deletes are forgotten and
\* its row locks released
Rollback(t) ==
    /\ disp' = [disp EXCEPT ![t] = IdleDisp]
    /\ lock' = ReleaseLocks(t)
    /\ redeliver' = redeliver \cup disp[t].sent
    /\ UNCHANGED queue

\* tick, step 1: open a transaction and select the groups to serve
DispSelect(t) ==
    /\ disp[t].pc = "idle"
    /\ \E S \in GetMulticastGroupsWithQueueItems(mg, queue, lock, now, batch) :
          /\ S # {}
          /\ disp' = [disp EXCEPT ![t] =
                        [IdleDisp EXCEPT !.pc = "next", !.sel = S, !.todo = S]]
          /\ lock' = [g \in Groups |-> IF g \in S THEN t ELSE lock[g]]
    /\ enqErr' = "nil"
    /\ UNCHANGED <<now, batch, mg, nextGroup, queue, nextID, enq, sendFails,
                   cancels, updates, hiSent, redeliver, expectFCnt, aborted,
                   eventBudget, deviceMulticastGroup, apiRet>>

\* HandleScheduleNextQueueItem, setToken and getNextQueueItem
DispGetNext(t) ==
    /\ disp[t].pc = "next"
    /\ \E g \in disp[t].todo : \E r \in getNextQueueItem(t, g) :
          disp' = [disp EXCEPT ![t].pc = "remove", ![t].cur = g,
                               ![t].todo = disp[t].todo \ {g}, ![t].qi = r]
    /\ enqErr' = "nil"
    /\ UNCHANGED <<now, batch, mg, nextGroup, queue, nextID, lock, enq,
                   sendFails, cancels, updates, hiSent, redeliver, expectFCnt,
                   aborted, eventBudget, deviceMulticastGroup, apiRet>>

\* getNextQueueItem finds no row: the step returns the error
DispGetNextError(t) ==
    /\ disp[t].pc = "next"
    /\ \E g \in disp[t].todo : getNextQueueItem(t, g) = {}
    /\ Rollback(t)
    /\ enqErr' = "nil"
    /\ UNCHANGED <<now, batch, mg, nextGroup, nextID, enq, sendFails, cancels,
                   updates, hiSent, expectFCnt, aborted, eventBudget,
                   deviceMulticastGroup, apiRet>>

\* removeQueueItem
DispRemove(t) ==
    /\ disp[t].pc = "remove"
    /\ removeQueueItem(t) # {}
    /\ disp' = [disp EXCEPT ![t].pc = "send",
                  ![t].del = disp[t].del \cup {r.id : r \in removeQueueItem(t)}]
    /\ enqErr' = "nil"
    /\ UNCHANGED <<now, batch, mg, nextGroup, queue, nextID, lock, enq,
                   sendFails, cancels, updates, hiSent, redeliver, expectFCnt,
                   aborted, eventBudget, deviceMulticastGroup, apiRet>>

\* removeQueueItem deletes no row: ErrDoesNotExist
DispRemoveError(t) ==
    /\ disp[t].pc = "remove"
    /\ removeQueueItem(t) = {}
    /\ Rollback(t)
    /\ enqErr' = "nil"
    /\ UNCHANGED <<now, batch, mg, nextGroup, nextID, enq, sendFails, cancels,
                   updates, hiSent, expectFCnt, aborted, eventBudget,
                   deviceMulticastGroup, apiRet>>

\* validatePayloadSize returns errAbort: the step ends without error
DispAbortOversize(t) ==
    /\ disp[t].pc = "send"
    /\ ~validatePayloadSize(mg[disp[t].cur], disp[t].qi)
    /\ disp' = [disp EXCEPT ![t].pc = StageAfterGroup(disp[t].todo),
                         ![t].cur = 0, ![t].qi = NoItem]
    /\ aborted' = aborted \cup {disp[t].qi.id}
    /\ enqErr' = "nil"
    /\ UNCHANGED <<now, batch, mg, nextGroup, queue, nextID, lock, enq,
                   sendFails, cancels, updates, hiSent, redeliver, expectFCnt,
                   eventBudget, deviceMulticastGroup, apiRet>>

\* validatePayloadSize, setTXInfo, setPHYPayload, sendDownlinkData and
\* logDownlinkFrameForGateway, for either answer of the gateway backend
DispSend(t) ==
    /\ disp[t].pc = "send"
    /\ validatePayloadSize(mg[disp[t].cur], disp[t].qi)
    /\ \E backendOK \in BOOLEAN :
          /\ backendOK \/ Events < eventBudget
          /\ sendFails' = IF backendOK THEN sendFails ELSE sendFails + 1
          /\ hiSent' = IF backendOK /\ disp[t].qi.fcnt >= hiSent[disp[t].cur].fcnt
                         THEN [hiSent EXCEPT ![disp[t].cur] =
                                 [id |-> setTXInfo(disp[t].qi).id,
                                  fcnt |-> setTXInfo(disp[t].qi).fcnt]]
                         ELSE hiSent
          /\ IF sendDownlinkData(backendOK) = "nil"
               THEN /\ disp' = [disp EXCEPT
                           ![t].pc = StageAfterGroup(disp[t].todo),
                           ![t].cur = 0, ![t].qi = NoItem,
                           ![t].sent = IF backendOK
                                         THEN disp[t].sent \cup {disp[t].qi.id}
                                         ELSE disp[t].sent]
                    /\ UNCHANGED <<queue, lock, redeliver>>
               ELSE Rollback(t)
    /\ enqErr' = "nil"
    /\ UNCHANGED <<now, batch, mg, nextGroup, nextID, enq, cancels, updates,
                   expectFCnt, aborted, eventBudget, deviceMulticastGroup,
                   apiRet>>

\* tick, step 3: commit
DispCommit(t) ==
    /\ disp[t].pc = "commit"
    /\ queue' = {r \in queue : r.id \notin disp[t].del}
    /\ lock' = ReleaseLocks(t)
    /\ disp' = [disp EXCEPT ![t] = IdleDisp]
    /\ aborted' = aborted \ disp[t].del
    /\ enqErr' = "nil"
    /\ UNCHANGED <<now, batch, mg, nextGroup, nextID, enq, sendFails, cancels,
                   updates, hiSent, redeliver, expectFCnt, eventBudget,
                   deviceMulticastGroup, apiRet>>

\* the process dies or is shut down while a tick's transaction is open
DispCancel(t) ==
    /\ disp[t].pc # "idle"
    /\ Events < eventBudget
    /\ cancels' = cancels + 1
    /\ Rollback(t)
    /\ enqErr' = "nil"
    /\ UNCHANGED <<now, batch, mg, nextGroup, nextID, enq, sendFails, updates,
                   hiSent, expectFCnt, aborted, eventBudget,
                   deviceMulticastGroup, apiRet>>

\* -------------------------------------------------------- enqueue pipeline
\* the rows one enqueue writes: one per gateway of the covering set, all
\* with FCnt = group.FCnt, ids drawn from the bigserial in gateway order
EnqueueRows(g, group, gws, fport, size, emit) ==
    {MulticastQueueItem(nextID + Cardinality({x \in gws : x < gw}),
                        g, gw, group.FCnt, fport, size, emit) : gw \in gws}

\* the emission time of the item: absent for Class-C, the next ping slot
\* after max(now + margin, GetMaxEmitTimeForGroup) for Class-B
EnqueueEmitAt(g, group) ==
    IF group.GroupType = "B"
      THEN GetNextPingSlotAfter(
               Max(GpsEpochScheduleTime(now),
                   GetMaxEmitAtTimeSinceGPSEpochForMulticastGroup(queue, g)),
               MCAddr(g))
      ELSE NullEmit

\* the error of an enqueue: no covering gateway, payload too large for the
\* DR, or CreateMulticastQueueItem refusing an item that does not validate
EnqueueErrorAnySize(group, gws, fport, size) ==
    IF gws = {} THEN "no gateways"
    ELSE IF ~Validate(MulticastQueueItem(0, 0, 0, group.FCnt, fport, size, NullEmit))
      THEN "ErrInvalidFPort"
    ELSE "nil"

EnqueueError(group, gws, fport, size) ==
    IF gws = {} THEN "no gateways"
    ELSE IF size > MaxPayloadSize(group.DR) THEN "payload exceeds max size"
    ELSE IF ~Validate(MulticastQueueItem(0, 0, 0, group.FCnt, fport, size, NullEmit))
      THEN "ErrInvalidFPort"
    ELSE "nil"

\* the enqueue is refused
EnqueueInvalid(group, gws, fport, size) ==
    EnqueueError(group, gws, fport, size) # "nil"

\* step 1: GetMulticastGroup(tx, id, true) reads the group and locks its row;
\* it waits while another transaction holds the row lock
EnqBegin(e, g) ==
    /\ enq[e].pc = "idle"
    /\ mg[g].exists
    /\ lock[g] = None
    /\ lock' = GetMulticastGroupLock(lock, g, TRUE, e)
    /\ enq' = [enq EXCEPT ![e] = [pc |-> "locked", g |-> g, read |-> mg[g]]]
    /\ enqErr' = "nil"
    /\ UNCHANGED <<now, batch, mg, nextGroup, queue, nextID, disp, sendFails,
                   cancels, updates, hiSent, redeliver, expectFCnt, aborted,
                   eventBudget, deviceMulticastGroup, apiRet>>

\* steps 2 to 5: gateway set, emission time, one CreateMulticastQueueItem per
\* gateway, UpdateMulticastGroup with FCnt + 1, commit
EnqCommit(e) ==
    /\ enq[e].pc = "locked"
    /\ LET g == enq[e].g
           group == enq[e].read
       IN  \E gws \in SUBSET Gateways, fport \in FPorts, size \in PayloadSizes :
             /\ ~EnqueueInvalid(group, gws, fport, size)
             /\ nextID + Cardinality(gws) - 1 <= MaxRows
             /\ LET rows == EnqueueRows(g, group, gws, fport, size,
                                        EnqueueEmitAt(g, group))
                IN  queue' = UNION {CreateMulticastQueueItem(queue, r) : r \in rows}
             /\ nextID' = nextID + Cardinality(gws)
             /\ mg' = UpdateMulticastGroup(mg, g, [group EXCEPT !.FCnt = group.FCnt + 1])
             /\ expectFCnt' = [expectFCnt EXCEPT ![g] = expectFCnt[g] + 1]
    /\ lock' = ReleaseLocks(e)
    /\ enq' = [enq EXCEPT ![e] = IdleEnq]
    /\ enqErr' = "nil"
    /\ UNCHANGED <<now, batch, nextGroup, disp, sendFails, cancels, updates,
                   hiSent, redeliver, aborted, eventBudget,
                   deviceMulticastGroup, apiRet>>

\* the enqueue fails and its transaction is rolled back
EnqReject(e) ==
    /\ enq[e].pc = "locked"
    /\ \E gws \in SUBSET Gateways, fport \in FPorts, size \in PayloadSizes :
          /\ EnqueueInvalid(enq[e].read, gws, fport, size)
          /\ enqErr' = EnqueueError(enq[e].read, gws, fport, size)
    /\ lock' = ReleaseLocks(e)
    /\ enq' = [enq EXCEPT ![e] = IdleEnq]
    /\ UNCHANGED <<now, batch, mg, nextGroup, queue, nextID, disp, sendFails,
                   cancels, updates, hiSent, redeliver, expectFCnt, aborted,
                   eventBudget, deviceMulticastGroup, apiRet>>

\* ------------------------------------------------------------ admin surface
\* CreateMulticastGroup with a fresh id
CreateGroup(fcnt, type, dr) ==
    /\ nextGroup <= NumGroups
    /\ mg' = CreateMulticastGroup(mg, nextGroup, MulticastGroup(fcnt, type, dr))
    /\ expectFCnt' = [expectFCnt EXCEPT ![nextGroup] = fcnt]
    /\ nextGroup' = nextGroup + 1
    /\ enqErr' = "nil"
    /\ UNCHANGED <<now, batch, queue, nextID, lock, disp, enq, sendFails,
                   cancels, updates, hiSent, redeliver, aborted, eventBudget,
                   deviceMulticastGroup, apiRet>>

\* UpdateMulticastGroup; the update waits for the row lock
UpdateGroup(g, fcnt, type, dr) ==
    /\ Events < eventBudget
    /\ mg[g].exists
    /\ lock[g] = None
    /\ mg' = UpdateMulticastGroup(mg, g, MulticastGroup(fcnt, type, dr))
    /\ updates' = updates + 1
    /\ enqErr' = "nil"
    /\ UNCHANGED <<now, batch, nextGroup, queue, nextID, lock, disp, enq,
                   sendFails, cancels, hiSent, redeliver, expectFCnt, aborted,
                   eventBudget, deviceMulticastGroup, apiRet>>

\* DeleteMulticastGroup; the delete waits for the row lock and cascades
DeleteGroup(g) ==
    /\ mg[g].exists
    /\ lock[g] = None
    /\ mg' = DeleteMulticastGroup(mg, g)
    /\ queue' = CascadeQueue(queue, g)
    /\ aborted' = {r.id : r \in CascadeQueue(queue, g)} \cap aborted
    /\ deviceMulticastGroup' = CascadeDevices(deviceMulticastGroup, g)
    /\ enqErr' = "nil"
    /\ UNCHANGED <<now, batch, nextGroup, nextID, lock, disp, enq, sendFails,
                   cancels, updates, hiSent, redeliver, expectFCnt,
                   eventBudget, apiRet>>

\* FlushMulticastQueueForMulticastGroup with at least one row; the delete
\* waits for rows another transaction has deleted and not yet committed
FlushQueue(g) ==
    /\ FlushMulticastQueueForMulticastGroup(queue, g) # {}
    /\ \A t \in Dispatchers :
          \A r \in FlushMulticastQueueForMulticastGroup(queue, g) :
             r.id \notin disp[t].del
    /\ queue' = queue \ FlushMulticastQueueForMulticastGroup(queue, g)
    /\ aborted' = aborted \ {r.id : r \in FlushMulticastQueueForMulticastGroup(queue, g)}
    /\ enqErr' = "nil"
    /\ UNCHANGED <<now, batch, mg, nextGroup, nextID, lock, disp, enq,
                   sendFails, cancels, updates, hiSent, redeliver, expectFCnt,
                   eventBudget, deviceMulticastGroup, apiRet>>

\* time passes
Tick ==
    /\ now < MaxTime
    /\ now' = now + 1
    /\ enqErr' = "nil"
    /\ UNCHANGED <<batch, mg, nextGroup, queue, nextID, lock, disp, enq,
                   sendFails, cancels, updates, hiSent, redeliver, expectFCnt,
                   aborted, eventBudget, deviceMulticastGroup, apiRet>>

\* ------------------------------------------------------------ specification
InitStore ==
    /\ now = 0
    /\ batch \in 1..MaxBatch
    /\ mg = [g \in Groups |-> NoGroup]
    /\ nextGroup = 1
    /\ queue = {}
    /\ nextID = 1
    /\ lock = [g \in Groups |-> None]
    /\ disp = [t \in Dispatchers |-> IdleDisp]
    /\ enq = [e \in Enqueuers |-> IdleEnq]
    /\ sendFails = 0
    /\ cancels = 0
    /\ updates = 0
    /\ hiSent = [g \in Groups |-> NoFrame]
    /\ redeliver = {}
    /\ expectFCnt = [g \in Groups |-> 0]
    /\ enqErr = "nil"
    /\ aborted = {}
    /\ deviceMulticastGroup = {}
    /\ apiRet = NoError

Init == InitStore /\ eventBudget = MaxEvents

Next ==
    \/ \E t \in Dispatchers : DispSelect(t)
    \/ \E t \in Dispatchers : DispGetNext(t)
    \/ \E t \in Dispatchers : DispGetNextError(t)
    \/ \E t \in Dispatchers : DispRemove(t)
    \/ \E t \in Dispatchers : DispRemoveError(t)
    \/ \E t \in Dispatchers : DispAbortOversize(t)
    \/ \E t \in Dispatchers : DispSend(t)
    \/ \E t \in Dispatchers : DispCommit(t)
    \/ \E t \in Dispatchers : DispCancel(t)
    \/ \E e \in Enqueuers, g \in Groups : EnqBegin(e, g)
    \/ \E e \in Enqueuers : EnqCommit(e)
    \/ \E e \in Enqueuers : EnqReject(e)
    \/ \E fcnt \in 0..MaxFCnt, type \in GroupTypes, dr \in DataRates :
          CreateGroup(fcnt, type, dr)
    \/ \E g \in Groups, fcnt \in 0..MaxFCnt, type \in GroupTypes, dr \in DataRates :
          UpdateGroup(g, fcnt, type, dr)
    \/ \E g \in Groups : DeleteGroup(g)
    \/ \E g \in Groups : FlushQueue(g)
    \/ Tick

Spec == Init /\ [][Next]_vars

\* one dispatcher instance and one enqueuing client, with room for one more
\* failure or update: the behaviours in which a tick is rolled back and the
\* group is updated before and after it
InitRetry == InitStore /\ eventBudget = MaxEvents + 1

NextRetry ==
    \/ DispSelect("d1")
    \/ DispGetNext("d1")
    \/ DispGetNextError("d1")
    \/ DispRemove("d1")
    \/ DispRemoveError("d1")
    \/ DispAbortOversize("d1")
    \/ DispSend("d1")
    \/ DispCommit("d1")
    \/ DispCancel("d1")
    \/ \E g \in Groups : EnqBegin("e1", g)
    \/ EnqCommit("e1")
    \/ EnqReject("e1")
    \/ \E fcnt \in 0..MaxFCnt, type \in GroupTypes, dr \in DataRates :
          CreateGroup(fcnt, type, dr)
    \/ \E g \in Groups, fcnt \in 0..MaxFCnt, type \in GroupTypes, dr \in DataRates :
          UpdateGroup(g, fcnt, type, dr)
    \/ \E g \in Groups : DeleteGroup(g)
    \/ \E g \in Groups : FlushQueue(g)
    \/ Tick

SpecRetry == InitRetry /\ [][NextRetry]_vars

\* ------------------------------------------------------- the storage client
\* One client calls the storage functions one after the other, each call in
\* its own committed transaction, as the storage and API test suites do.
\* No dispatcher and no enqueue pipeline runs, so no row lock is ever held.
StoreFCnts == 0..(MaxFCnt + 1)
StoreEmits == {NullEmit} \cup 1..(MaxTime + 1)

\* what no call of the storage client touches
concurrent == <<now, batch, lock, disp, enq, sendFails, cancels, updates,
                hiSent, redeliver, expectFCnt, aborted, eventBudget>>

\* GetMulticastGroup(db, id, false)
StoreGetGroup(g) ==
    /\ apiRet' = Return("GetMulticastGroup", g, GetMulticastGroupError(mg, g),
                        0, mg[g])
    /\ UNCHANGED <<mg, nextGroup, queue, nextID, deviceMulticastGroup>>
    /\ enqErr' = "nil"
    /\ UNCHANGED concurrent

\* UpdateMulticastGroup
StoreUpdateGroup(g, fcnt, type, dr) ==
    /\ mg' = UpdateMulticastGroup(mg, g, MulticastGroup(fcnt, type, dr))
    /\ apiRet' = Return("UpdateMulticastGroup", g,
                        UpdateMulticastGroupError(mg, g), 0, 0)
    /\ UNCHANGED <<nextGroup, queue, nextID, deviceMulticastGroup>>
    /\ enqErr' = "nil"
    /\ UNCHANGED concurrent

\* DeleteMulticastGroup, with the cascades of the foreign keys
StoreDeleteGroup(g) ==
    /\ mg' = DeleteMulticastGroup(mg, g)
    /\ queue' = CascadeQueue(queue, g)
    /\ deviceMulticastGroup' = CascadeDevices(deviceMulticastGroup, g)
    /\ apiRet' = Return("DeleteMulticastGroup", g,
                        DeleteMulticastGroupError(mg, g),
                        Cardinality(queue \ CascadeQueue(queue, g)),
                        Cardinality(deviceMulticastGroup
                                    \ CascadeDevices(deviceMulticastGroup, g)))
    /\ UNCHANGED <<nextGroup, nextID>>
    /\ enqErr' = "nil"
    /\ UNCHANGED concurrent

\* CreateMulticastQueueItem with the caller's FCnt, gateway and emission time
StoreCreateQueueItem(g, gw, fcnt, fport, size, emit) ==
    /\ nextID <= MaxRows
    /\ LET qi  == MulticastQueueItem(nextID, g, gw, fcnt, fport, size, emit)
           err == CreateMulticastQueueItemError(mg, qi)
       IN  /\ queue' = IF err = "nil" THEN CreateMulticastQueueItem(queue, qi)
                                     ELSE queue
           /\ nextID' = IF err = "nil" THEN nextID + 1 ELSE nextID
           /\ apiRet' = Return("CreateMulticastQueueItem", g, err, 0, 0)
    /\ UNCHANGED <<mg, nextGroup, deviceMulticastGroup>>
    /\ enqErr' = "nil"
    /\ UNCHANGED concurrent

\* DeleteMulticastQueueItem
StoreDeleteQueueItem(g, fCnt) ==
    /\ queue' = queue \ DeleteMulticastQueueItem(queue, g, fCnt)
    /\ apiRet' = Return("DeleteMulticastQueueItem", g,
                        DeleteMulticastQueueItemError(queue, g, fCnt),
                        Cardinality(DeleteMulticastQueueItem(queue, g, fCnt)),
                        0)
    /\ UNCHANGED <<mg, nextGroup, nextID, deviceMulticastGroup>>
    /\ enqErr' = "nil"
    /\ UNCHANGED concurrent

\* FlushMulticastQueueForMulticastGroup
StoreFlushQueue(g) ==
    /\ queue' = queue \ FlushMulticastQueueForMulticastGroup(queue, g)
    /\ apiRet' = Return("FlushMulticastQueueForMulticastGroup", g,
                        FlushMulticastQueueForMulticastGroupError(queue, g),
                        Cardinality(FlushMulticastQueueForMulticastGroup(queue, g)),
                        0)
    /\ UNCHANGED <<mg, nextGroup, nextID, deviceMulticastGroup>>
    /\ enqErr' = "nil"
    /\ UNCHANGED concurrent

\* GetMulticastQueueItemsForMulticastGroup
StoreListQueueItems(g) ==
    /\ \E s \in GetMulticastQueueItemsForMulticastGroupOrdered(queue, g) :
          apiRet' = Return("GetMulticastQueueItemsForMulticastGroup", g, "nil",
                           0, s)
    /\ UNCHANGED <<mg, nextGroup, queue, nextID, deviceMulticastGroup>>
    /\ enqErr' = "nil"
    /\ UNCHANGED concurrent

\* GetNextMulticastQueueItemForMulticastGroup: sqlx.Get returns the
\* not-found error when the select has no row
StoreNextQueueItem(g) ==
    /\ IF GetNextMulticastQueueItemForMulticastGroup(queue, g) = {}
         THEN apiRet' = Return("GetNextMulticastQueueItemForMulticastGroup", g,
                               "ErrDoesNotExist", 0, NoItem)
         ELSE \E r \in GetNextMulticastQueueItemForMulticastGroup(queue, g) :
                 apiRet' = Return("GetNextMulticastQueueItemForMulticastGroup",
                                  g, "nil", 0, r)
    /\ UNCHANGED <<mg, nextGroup, queue, nextID, deviceMulticastGroup>>
    /\ enqErr' = "nil"
    /\ UNCHANGED concurrent

\* GetMaxEmitAtTimeSinceGPSEpochForMulticastGroup
StoreMaxEmitAt(g) ==
    /\ apiRet' = Return("GetMaxEmitAtTimeSinceGPSEpochForMulticastGroup", g,
                        "nil", 0,
                        GetMaxEmitAtTimeSinceGPSEpochForMulticastGroup(queue, g))
    /\ UNCHANGED <<mg, nextGroup, queue, nextID, deviceMulticastGroup>>
    /\ enqErr' = "nil"
    /\ UNCHANGED concurrent

\* AddDeviceToMulticastGroup
StoreAddDevice(d, g) ==
    /\ deviceMulticastGroup' =
          AddDeviceToMulticastGroup(mg, deviceMulticastGroup, d, g)
    /\ apiRet' = Return("AddDeviceToMulticastGroup", g,
                        AddDeviceToMulticastGroupError(mg, deviceMulticastGroup,
                                                       d, g), 0, 0)
    /\ UNCHANGED <<mg, nextGroup, queue, nextID>>
    /\ enqErr' = "nil"
    /\ UNCHANGED concurrent

\* RemoveDeviceFromMulticastGroup
StoreRemoveDevice(d, g) ==
    /\ deviceMulticastGroup' =
          RemoveDeviceFromMulticastGroup(deviceMulticastGroup, d, g)
    /\ apiRet' = Return("RemoveDeviceFromMulticastGroup", g,
                        RemoveDeviceFromMulticastGroupError(deviceMulticastGroup,
                                                            d, g), 0, 0)
    /\ UNCHANGED <<mg, nextGroup, queue, nextID>>
    /\ enqErr' = "nil"
    /\ UNCHANGED concurrent

\* GetMulticastGroupsForDevEUI
StoreGroupsForDevEUI(d) ==
    /\ apiRet' = Return("GetMulticastGroupsForDevEUI", 0, "nil", 0,
                        GetMulticastGroupsForDevEUI(deviceMulticastGroup, d))
    /\ UNCHANGED <<mg, nextGroup, queue, nextID, deviceMulticastGroup>>
    /\ enqErr' = "nil"
    /\ UNCHANGED concurrent

\* GetDevEUIsForMulticastGroup
StoreDevEUIsForGroup(g) ==
    /\ apiRet' = Return("GetDevEUIsForMulticastGroup", g, "nil", 0,
                        GetDevEUIsForMulticastGroup(deviceMulticastGroup, g))
    /\ UNCHANGED <<mg, nextGroup, queue, nextID, deviceMulticastGroup>>
    /\ enqErr' = "nil"
    /\ UNCHANGED concurrent

\* a gateway is deleted: the foreign key of multicast_queue.gateway_id
\* cascades to the rows that target it
StoreDeleteGateway(gw) ==
    /\ queue' = CascadeGateway(queue, gw)
    /\ apiRet' = Return("DeleteGateway", 0, "nil",
                        Cardinality(queue \ CascadeGateway(queue, gw)), 0)
    /\ UNCHANGED <<mg, nextGroup, nextID, deviceMulticastGroup>>
    /\ enqErr' = "nil"
    /\ UNCHANGED concurrent

\* the client starts on the empty store
InitClient == Init /\ batch = 1

\* the one device of the behaviours that need no second one
Member == {CHOOSE d \in Devices : TRUE}

\* the calls that change groups and queues, with one member device for the
\* cascade of DeleteMulticastGroup
NextStore ==
    \/ \E fcnt \in 0..MaxFCnt, type \in GroupTypes, dr \in DataRates :
          CreateGroup(fcnt, type, dr)
    \/ \E g \in Groups : StoreGetGroup(g)
    \/ \E g \in Groups, fcnt \in 0..MaxFCnt, type \in GroupTypes, dr \in DataRates :
          StoreUpdateGroup(g, fcnt, type, dr)
    \/ \E g \in Groups : StoreDeleteGroup(g)
    \/ \E g \in Groups, gw \in Gateways, fcnt \in StoreFCnts, fport \in FPorts,
          size \in PayloadSizes :
          StoreCreateQueueItem(g, gw, fcnt, fport, size, NullEmit)
    \/ \E g \in Groups, fcnt \in StoreFCnts : StoreDeleteQueueItem(g, fcnt)
    \/ \E g \in Groups : StoreFlushQueue(g)
    \/ \E d \in Member, g \in Groups : StoreAddDevice(d, g)
    \/ \E gw \in Gateways : StoreDeleteGateway(gw)

SpecStore == InitClient /\ [][NextStore]_vars

\* the calls on the memberships of the devices, over groups that are
\* created and deleted
NextDevices ==
    \/ \E fcnt \in 0..MaxFCnt, type \in GroupTypes, dr \in DataRates :
          CreateGroup(fcnt, type, dr)
    \/ \E g \in Groups : StoreDeleteGroup(g)
    \/ \E d \in Devices, g \in Groups : StoreAddDevice(d, g)
    \/ \E d \in Devices, g \in Groups : StoreRemoveDevice(d, g)
    \/ \E d \in Devices : StoreGroupsForDevEUI(d)
    \/ \E g \in Groups : StoreDevEUIsForGroup(g)

SpecDevices == InitClient /\ [][NextDevices]_vars

\* the calls that fill and empty the queues, and the reads of the queue
NextQueue ==
    \/ \E fcnt \in 0..MaxFCnt, type \in GroupTypes, dr \in DataRates :
          CreateGroup(fcnt, type, dr)
    \/ \E g \in Groups, gw \in Gateways, fcnt \in StoreFCnts, fport \in FPorts,
          size \in PayloadSizes, emit \in StoreEmits :
          StoreCreateQueueItem(g, gw, fcnt, fport, size, emit)
    \/ \E g \in Groups, fcnt \in StoreFCnts : StoreDeleteQueueItem(g, fcnt)
    \/ \E g \in Groups : StoreFlushQueue(g)
    \/ \E g \in Groups : StoreListQueueItems(g)
    \/ \E g \in Groups : StoreNextQueueItem(g)
    \/ \E g \in Groups : StoreMaxEmitAt(g)

SpecQueue == InitClient /\ [][NextQueue]_vars

\* ------------------------------------------------- the coverage selector
\* GetMinimumGatewaySet(rxInfoSets): rx maps each input device to its fresh
\* receptions, one RSSI per gateway that heard it, NoRX for the others
NumCoverDevices == 3
NumCoverGateways == 3
NoRX == 0
CoverDevices == 1..NumCoverDevices
CoverGateways == 1..NumCoverGateways
RSSIs == {-2, -1}
RXInfoSets ==
    UNION {[D -> [CoverGateways -> RSSIs \cup {NoRX}]] : D \in SUBSET CoverDevices}

\* the devices of U the gateway has a fresh reception of
Covers(rx, gw, U) == {d \in U : rx[d][gw] # NoRX}

\* the sum of the gateway's RSSI over the devices of S
RECURSIVE AggregateRSSI(_, _, _)
AggregateRSSI(rx, gw, S) ==
    IF S = {} THEN 0
    ELSE LET d == CHOOSE x \in S : TRUE
         IN  rx[d][gw] + AggregateRSSI(rx, gw, S \ {d})

\* gateway a is picked before gateway b for the uncovered devices U: more
\* uncovered devices, then higher aggregate RSSI, then smaller gateway id
BetterNoRSSI(rx, U, a, b) ==
    LET ca == Cardinality(Covers(rx, a, U))
        cb == Cardinality(Covers(rx, b, U))
    IN  \/ ca > cb
        \/ ca = cb /\ a < b

Better(rx, U, a, b) ==
    LET ca == Cardinality(Covers(rx, a, U))
        cb == Cardinality(Covers(rx, b, U))
        ra == AggregateRSSI(rx, a, Covers(rx, a, U))
        rb == AggregateRSSI(rx, b, Covers(rx, b, U))
    IN  \/ ca > cb
        \/ ca = cb /\ ra > rb
        \/ ca = cb /\ ra = rb /\ a < b

\* one round of the greedy set cover
PickGateway(rx, U) ==
    CHOOSE a \in CoverGateways :
       \A b \in CoverGateways \ {a} : Better(rx, U, a, b)

RECURSIVE GreedyCover(_, _, _)
GreedyCover(rx, U, picked) ==
    IF U = {} THEN picked
    ELSE LET a == PickGateway(rx, U)
         IN  GreedyCover(rx, U \ Covers(rx, a, U), picked \cup {a})

\* a device of the input has no fresh reception
GetMinimumGatewaySetError(rx) ==
    IF \E d \in DOMAIN rx : \A gw \in CoverGateways : rx[d][gw] = NoRX
      THEN "device unreachable" ELSE "nil"

GetMinimumGatewaySet(rx) ==
    IF GetMinimumGatewaySetError(rx) = "nil"
      THEN GreedyCover(rx, DOMAIN rx, {}) ELSE {}

\* setGateways has read the reception sets of the group's devices
InitCover ==
    /\ \E rx \in RXInfoSets :
          apiRet = Return("GetDeviceGatewayRXInfoSetForDevEUIs", 0, "nil", 0,
                          [rx |-> rx, gws |-> {}])
    /\ now = 0
    /\ batch = 1
    /\ mg = [g \in Groups |-> NoGroup]
    /\ nextGroup = 1
    /\ queue = {}
    /\ nextID = 1
    /\ lock = [g \in Groups |-> None]
    /\ disp = [t \in Dispatchers |-> IdleDisp]
    /\ enq = [e \in Enqueuers |-> IdleEnq]
    /\ sendFails = 0
    /\ cancels = 0
    /\ updates = 0
    /\ hiSent = [g \in Groups |-> NoFrame]
    /\ redeliver = {}
    /\ expectFCnt = [g \in Groups |-> 0]
    /\ enqErr = "nil"
    /\ aborted = {}
    /\ eventBudget = MaxEvents
    /\ deviceMulticastGroup = {}

\* setGateways: the selector is called on the reception sets
StoreGatewaySet ==
    /\ apiRet.op = "GetDeviceGatewayRXInfoSetForDevEUIs"
    /\ apiRet' = Return("GetMinimumGatewaySet", 0,
                        GetMinimumGatewaySetError(apiRet.val.rx), 0,
                        [rx |-> apiRet.val.rx,
                         gws |-> GetMinimumGatewaySet(apiRet.val.rx)])
    /\ UNCHANGED <<mg, nextGroup, queue, nextID, deviceMulticastGroup>>
    /\ enqErr' = "nil"
    /\ UNCHANGED concurrent

NextCover == StoreGatewaySet

SpecCover == InitCover /\ [][NextCover]_vars

\* one dispatcher instance and one enqueuing client run while the storage
\* client adds one device to and removes it from the groups
NextMember ==
    \/ \E fcnt \in 0..MaxFCnt, type \in GroupTypes, dr \in DataRates :
          CreateGroup(fcnt, type, dr)
    \/ \E g \in Groups : EnqBegin("e1", g)
    \/ EnqCommit("e1")
    \/ EnqReject("e1")
    \/ DispSelect("d1")
    \/ DispGetNext("d1")
    \/ DispRemove("d1")
    \/ DispSend("d1")
    \/ DispCommit("d1")
    \/ \E d \in Member, g \in Groups : StoreAddDevice(d, g)
    \/ \E d \in Member, g \in Groups : StoreRemoveDevice(d, g)
    \/ Tick

SpecMember == InitClient /\ [][NextMember]_vars

\* ------------------------------------------------------ draining the queues
\* The clock runs on after the last enqueue until every emission time an
\* enqueue can have stamped is due: two chained rows lie at most two ping
\* periods after the enqueue's margin.
LiveMaxTime == MaxTime + 2 * PingPeriod

TickLive ==
    /\ now < LiveMaxTime
    /\ now' = now + 1
    /\ enqErr' = "nil"
    /\ UNCHANGED <<batch, mg, nextGroup, queue, nextID, lock, disp, enq,
                   sendFails, cancels, updates, hiSent, redeliver, expectFCnt,
                   aborted, eventBudget, deviceMulticastGroup, apiRet>>

\* one dispatcher instance, one enqueuing client and UpdateMulticastGroup;
\* no flush, no group deletion, no crash, and at most eventBudget failed
\* sends and updates
NextLive ==
    \/ \E fcnt \in 0..MaxFCnt, type \in GroupTypes, dr \in DataRates :
          CreateGroup(fcnt, type, dr)
    \/ \E g \in Groups : now <= MaxTime /\ EnqBegin("e1", g)
    \/ now <= MaxTime /\ EnqCommit("e1")
    \/ EnqReject("e1")
    \/ DispSelect("d1")
    \/ DispGetNext("d1")
    \/ DispRemove("d1")
    \/ DispAbortOversize("d1")
    \/ DispSend("d1")
    \/ DispCommit("d1")
    \/ \E g \in Groups, fcnt \in 0..MaxFCnt, type \in GroupTypes, dr \in DataRates :
          UpdateGroup(g, fcnt, type, dr)
    \/ TickLive

\* the ticker starts a tick again and again, a tick and an enqueue run to
\* their end, and time passes
FairLive ==
    /\ SF_vars(DispSelect("d1"))
    /\ WF_vars(DispGetNext("d1"))
    /\ WF_vars(DispRemove("d1"))
    /\ WF_vars(DispAbortOversize("d1") \/ DispSend("d1"))
    /\ WF_vars(DispCommit("d1"))
    /\ WF_vars((now <= MaxTime /\ EnqCommit("e1")) \/ EnqReject("e1"))
    /\ WF_vars(TickLive)

SpecLive == InitClient /\ [][NextLive]_vars /\ FairLive

\* ------------------------------------------------------- steps of interest
\* dispatcher t opens a tick and its select returns
SelectStep(t) == disp[t].pc = "idle" /\ disp'[t].pc # "idle"

\* SendTXPacket accepts the frame of dispatcher t's current item
SentStep(t) ==
    /\ disp[t].pc = "send"
    /\ disp[t].qi.id \notin disp[t].sent
    /\ disp[t].qi.id \in disp'[t].sent

\* SendTXPacket refuses the frame of dispatcher t's current item
FailedSendStep(t) ==
    /\ disp[t].pc = "send"
    /\ disp'[t] # disp[t]
    /\ sendFails' = sendFails + 1

\* a database operation of dispatcher t's step returns an error
FailedDBStep(t) ==
    /\ disp[t].pc \in {"next", "remove"}
    /\ disp'[t].pc = "idle"
    /\ cancels' = cancels

\* the transaction of dispatcher t's tick commits
CommitStep(t) ==
    /\ disp[t].pc = "commit"
    /\ disp'[t].pc = "idle"
    /\ cancels' = cancels

\* enqueue e commits, having written its rows for group g
EnqueueStep(e, g) ==
    /\ enq[e].pc = "locked"
    /\ enq[e].g = g
    /\ enq'[e].pc = "idle"
    /\ nextID' > nextID

\* the groups a select can lock: dispatchable, and not locked by anyone
Dispatchable == GroupsWithQueueItems(mg, queue, now)
Free == {g \in Dispatchable : lock[g] = None}

\* ------------------------------------------------------------------- claims
\* C1: the group sets returned to two transactions that are open at the same
\* time are disjoint; a group stays with its transaction until that commits
\* or rolls back.
C1_DisjointSelections ==
    \A t1 \in Dispatchers, t2 \in Dispatchers :
       t1 # t2 => disp[t1].sel \cap disp[t2].sel = {}

\* two ticks are open at once, each holding groups
C1_Witness ==
    \A t \in Dispatchers : disp[t].pc # "idle" /\ disp[t].sel # {}

C4_DeleteAfterSend ==
    \A t \in Dispatchers :
       (disp[t].qi # NoItem /\ disp[t].qi.id \in disp[t].del)
          => disp[t].qi.id \in disp[t].sent

C7_SelectedGroupsAreDue ==
    [][\A t \in Dispatchers :
          SelectStep(t) =>
             \A g \in disp'[t].sel :
                /\ mg[g].exists
                /\ \E r \in queue : r.g = g
                /\ \/ mg[g].GroupType = "C"
                   \/ \E r \in queue :
                         /\ r.g = g
                         /\ r.emit # NullEmit
                         /\ r.emit <= now + 2 * SchedulerInterval]_vars

\* a Class-B group has been selected
C7_Witness ==
    \E t \in Dispatchers : \E g \in disp[t].sel : mg[g].GroupType = "B"

\* C8: a select with limit L returns min(L, number of unlocked dispatchable
\* groups) groups, all of them unlocked and dispatchable, so a group locked
\* by another transaction takes no place of the limit; when 2L <= G groups
\* are dispatchable and another open tick holds L of them, and no enqueue
\* holds a lock, the two ticks hold 2L distinct groups.
C8_SkipLockedSharing ==
    [][/\ \A S \in GetMulticastGroupsWithQueueItems(mg, queue, lock, now, batch) :
             /\ S \subseteq Free
             /\ Cardinality(S) = Min(batch, Cardinality(Free))
       /\ \A t \in Dispatchers :
             SelectStep(t) =>
                /\ Cardinality(disp'[t].sel) <= batch
                /\ disp'[t].sel \subseteq Free
                /\ Cardinality(disp'[t].sel) = Min(batch, Cardinality(Free))
                /\ \A t2 \in Dispatchers \ {t} :
                      (/\ Cardinality(disp[t2].sel) = batch
                       /\ Cardinality(Dispatchable) >= 2 * batch
                       /\ \A e \in Enqueuers : enq[e].pc = "idle")
                         => Cardinality(disp'[t].sel \cup disp[t2].sel) = 2 * batch]_vars

\* with limit 1 and two dispatchable groups, two open ticks hold one each
C8_Witness ==
    /\ batch = 1
    /\ Cardinality(UNION {disp[t].sel : t \in Dispatchers}) = 2
    /\ \A t \in Dispatchers : Cardinality(disp[t].sel) = 1

\* C9 as stated: the k-th successful enqueue on a group writes its rows with
\* FCnt = the FCnt the group was created with + k - 1.
C9_GapFreeFCnt ==
    [][\A e \in Enqueuers, g \in Groups :
          EnqueueStep(e, g) =>
             \A r \in queue' \ queue : r.fcnt = expectFCnt[g]]_vars

QueuedEmits(q, g) == {r.emit : r \in {x \in q : x.g = g /\ x.emit # NullEmit}}

Largest(S) == CHOOSE m \in S : \A x \in S : x <= m

C13_UniqueFCntGateway ==
    \A r1 \in queue, r2 \in queue :
       (r1.g = r2.g /\ r1.fcnt = r2.fcnt /\ r1.gw = r2.gw) => r1 = r2

\* ------------------------------------------------------------------- C14
\* C14: in every reachable state, a queue item of a Class-B group has an
\* emission time and a queue item of a Class-C group has none.
C14_EmitIffClassB ==
    \A r \in queue :
       mg[r.g].exists => (mg[r.g].GroupType = "B" <=> r.emit # NullEmit)

\* ------------------------------------------------------------------- C15
\* the queue rows of group g change in this step
QueueChangeStep(g) ==
    GetMulticastQueueItemsForMulticastGroup(queue', g)
       # GetMulticastQueueItemsForMulticastGroup(queue, g)

\* the step is one of transaction a
StepOf(a) ==
    \/ a \in Dispatchers /\ disp'[a] # disp[a]
    \/ a \in Enqueuers /\ enq'[a] # enq[a]

\* C15: the group's row lock covers its queue rows. Every step that inserts
\* or deletes queue rows of a group that stays in the store is a step of
\* the transaction that holds the group's row lock.
C15_LockCoversQueueRows ==
    [][\A g \in Groups :
         (QueueChangeStep(g) /\ mg'[g].exists) =>
            \E a \in Dispatchers \cup Enqueuers : lock[g] = a /\ StepOf(a)]_vars

\* ------------------------------------------------------------------- C16
\* the step of dispatcher t reaches validatePayloadSize with an item larger
\* than the maximum payload size of the group's DR, and the process lives on
OversizeStep(t) ==
    /\ disp[t].pc = "send"
    /\ disp[t].qi.size > MaxPayloadSize(mg[disp[t].cur].DR)
    /\ disp'[t] # disp[t]
    /\ cancels' = cancels

\* what the step does with an oversize head item: the row is deleted in the
\* tick's transaction, nothing goes to the gateway backend, and the step ends
\* without error, so the tick goes on to its next group or to its commit
OversizeStepAborts(t) ==
    OversizeStep(t) =>
       /\ disp[t].qi.id \in disp[t].del
       /\ disp'[t].del = disp[t].del
       /\ disp'[t].sent = disp[t].sent
       /\ hiSent' = hiSent /\ sendFails' = sendFails
       /\ disp'[t].pc \in {"next", "commit"}
       /\ lock' = lock

\* C16 as stated: an oversize head item is deleted by the step, nothing is
\* sent, the step ends without error, and the item is never sent later.
C16_OversizeNeverSent ==
    [][\A t \in Dispatchers :
         /\ OversizeStepAborts(t)
         /\ SentStep(t) => disp[t].qi.id \notin aborted]_vars

\* C16, amended: an oversize head item is deleted by the step inside the
\* tick's transaction, nothing is sent, and the step ends without error; the
\* commit of the tick removes the row for good; and no frame is ever sent
\* whose payload is larger than the maximum of the group's DR at that time.
C16_OversizeAbortedInTick ==
    [][\A t \in Dispatchers :
         /\ OversizeStepAborts(t)
         /\ CommitStep(t) => \A r \in queue' : r.id \notin disp[t].del
         /\ SentStep(t) =>
               disp[t].qi.size <= MaxPayloadSize(mg[disp[t].cur].DR)]_vars

\* a tick has aborted an oversize item, sent nothing, and is about to commit
\* the delete
C16_Witness ==
    \E t \in Dispatchers :
       /\ disp[t].pc = "commit"
       /\ disp[t].sent = {}
       /\ \E r \in queue : r.id \in aborted /\ r.id \in disp[t].del

\* ------------------------------------------------------------------- C17
\* the enqueue of client e on group g is refused
RejectStep(e, g) ==
    /\ enq[e].pc = "locked" /\ enq[e].g = g
    /\ enq'[e].pc = "idle"
    /\ nextID' = nextID

\* C17: an enqueue whose payload exceeds the maximum size for the group's DR
\* is refused: it creates no queue row and leaves the group's FCnt (and the
\* rest of the group) unchanged; and no enqueue writes a row whose payload
\* exceeds the maximum size for the DR the group has at that time.
C17_OversizeEnqueueRejected ==
    [][\A e \in Enqueuers, g \in Groups :
         /\ (RejectStep(e, g) /\ enqErr' = "payload exceeds max size") =>
               /\ enq[e].read.DR = mg[g].DR
               /\ \E size \in PayloadSizes : size > MaxPayloadSize(mg[g].DR)
               /\ queue' = queue /\ mg' = mg
               /\ lock'[g] = None
         /\ EnqueueStep(e, g) =>
               \A r \in queue' \ queue : r.size <= MaxPayloadSize(mg[g].DR)]_vars

\* an enqueue has been refused for its payload size, on a group whose FCnt
\* is still the one it was created with
C17_Witness ==
    /\ enqErr = "payload exceeds max size"
    /\ \E g \in Groups :
          /\ mg[g].exists /\ lock[g] = None
          /\ \E size \in PayloadSizes : size > MaxPayloadSize(mg[g].DR)
          /\ mg[g].FCnt = expectFCnt[g]
          /\ GetMulticastQueueItemsForMulticastGroup(queue, g) = {}

\* ------------------------------------------------------------------- C18
\* C18: an enqueue on a group that has no member devices fails: no enqueue
\* on a group without member devices creates queue rows or raises the
\* group's FCnt.
C18_NoDevicesRejected ==
    [][\A e \in Enqueuers, g \in Groups :
         EnqueueStep(e, g) =>
            GetDevEUIsForMulticastGroup(deviceMulticastGroup, g) # {}]_vars

\* ------------------------------------------------------------------- C19
\* C19: every queue item in the store has a non-zero FPort, and an enqueue
\* that CreateMulticastQueueItem refuses with ErrInvalidFPort leaves the
\* queue unchanged.
C19_NonZeroFPort ==
    /\ [](\A r \in queue : r.fport # 0)
    /\ [][\A e \in Enqueuers, g \in Groups :
            (RejectStep(e, g) /\ enqErr' = "ErrInvalidFPort") =>
               queue' = queue]_vars

\* an enqueue has been refused with ErrInvalidFPort while items are queued
C19_Witness ==
    /\ enqErr = "ErrInvalidFPort"
    /\ queue # {}

\* ------------------------------------------------------------------- C20
\* row r has the key (group, FCnt, gateway) of a row of q
KeyExists(q, r) ==
    \E o \in q : o.g = r.g /\ o.fcnt = r.fcnt /\ o.gw = r.gw

\* C20: an enqueue for a key that already exists in the group's queue fails
\* and leaves the queue unchanged: no enqueue adds a row whose key another
\* queued row already has.
C20_DuplicateKeyRejected ==
    [][\A e \in Enqueuers, g \in Groups :
         EnqueueStep(e, g) =>
            \A r \in queue' \ queue : ~KeyExists(queue, r)]_vars

\* ------------------------------------------------------------------- C21
\* the latest call of the storage client was op and returned no error
Succeeded(op) == apiRet.op = op /\ apiRet.err = "nil"

\* C21: a DeleteMulticastGroup on an existing group succeeds whatever its
\* queue holds, and after it no queue row and no device membership of that
\* group remains while the rows and memberships of the other groups stay;
\* deleting a gateway removes exactly the queue rows that target it and
\* leaves the groups, the memberships and the other rows.
C21_Cascade ==
    [][/\ \A g \in Groups :
            StoreDeleteGroup(g) =>
               /\ mg[g].exists => apiRet'.err = "nil"
               /\ apiRet'.err = "nil" =>
                     /\ ~mg'[g].exists
                     /\ {r \in queue' : r.g = g} = {}
                     /\ {m \in deviceMulticastGroup' : m[1] = g} = {}
                     /\ {r \in queue' : r.g # g} = {r \in queue : r.g # g}
                     /\ {m \in deviceMulticastGroup' : m[1] # g}
                           = {m \in deviceMulticastGroup : m[1] # g}
                     /\ \A o \in Groups \ {g} : mg'[o] = mg[o]
       /\ \A gw \in Gateways :
            StoreDeleteGateway(gw) =>
               /\ queue' = {r \in queue : r.gw # gw}
               /\ mg' = mg
               /\ deviceMulticastGroup' = deviceMulticastGroup]_vars

\* a group with a queue row and a member device was deleted, and a queue
\* row of the other group is still in the store
C21_Witness ==
    /\ Succeeded("DeleteMulticastGroup")
    /\ apiRet.n >= 1
    /\ apiRet.val >= 1
    /\ \E r \in queue : r.g # apiRet.id /\ mg[r.g].exists

\* ------------------------------------------------------------------- C22
\* the tables of the store
store == <<mg, nextGroup, queue, nextID, deviceMulticastGroup>>

\* the group id was given out by CreateMulticastGroup and its row is gone
Deleted(g) == g < nextGroup /\ ~mg[g].exists

\* C22: UpdateMulticastGroup and DeleteMulticastGroup on an id that matches
\* no group return ErrDoesNotExist and change nothing; once a group has
\* been deleted, a second DeleteMulticastGroup and a GetMulticastGroup on
\* its id return ErrDoesNotExist.
C22_NotFoundChangesNothing ==
    [][\A g \in Groups :
         /\ \A fcnt \in 0..MaxFCnt, type \in GroupTypes, dr \in DataRates :
               (StoreUpdateGroup(g, fcnt, type, dr) /\ ~mg[g].exists) =>
                  apiRet'.err = "ErrDoesNotExist" /\ UNCHANGED store
         /\ (StoreDeleteGroup(g) /\ ~mg[g].exists) =>
               apiRet'.err = "ErrDoesNotExist" /\ UNCHANGED store
         /\ (StoreDeleteGroup(g) /\ apiRet'.err = "nil") => Deleted(g)'
         /\ ((StoreDeleteGroup(g) \/ StoreGetGroup(g)) /\ Deleted(g)) =>
               apiRet'.err = "ErrDoesNotExist"]_vars

\* a second DeleteMulticastGroup on a deleted group returned
\* ErrDoesNotExist while the store holds another group with a queue row
C22_Witness ==
    /\ apiRet.op = "DeleteMulticastGroup"
    /\ apiRet.err = "ErrDoesNotExist"
    /\ Deleted(apiRet.id)
    /\ queue # {}

\* ------------------------------------------------------------------- C23
\* C23: GetMulticastQueueItemsForMulticastGroup returns exactly the rows
\* queued for the group at the time of the call, each once and none of
\* another group, in ascending FCnt order whatever the order of the inserts.
\* The call leaves the store as it is, so in the state it returns in the
\* queue is the queue at the time of the call.
C23_ListOrderedByFCnt ==
    apiRet.op = "GetMulticastQueueItemsForMulticastGroup" =>
       LET g == apiRet.id
           s == apiRet.val
       IN  /\ apiRet.err = "nil"
           /\ {s[i] : i \in 1..Len(s)} = {r \in queue : r.g = g}
           /\ Len(s) = Cardinality({r \in queue : r.g = g})
           /\ \A i, j \in 1..Len(s) : i < j => s[i].fcnt <= s[j].fcnt

\* the list of a group came back with the row inserted last in front,
\* because its FCnt is the lower one
C23_Witness ==
    /\ Succeeded("GetMulticastQueueItemsForMulticastGroup")
    /\ Len(apiRet.val) = 2
    /\ apiRet.val[1].id > apiRet.val[2].id
    /\ apiRet.val[1].fcnt < apiRet.val[2].fcnt

\* ------------------------------------------------------------------- C24
\* C24: GetNextMulticastQueueItemForMulticastGroup returns a row of the
\* group whose FCnt is the lowest of the group's queue, and returns an
\* error when the group has no queue row.  The call leaves the store as it
\* is, so in the state it returns in the queue is the queue it read.
C24_NextIsMinFCnt ==
    apiRet.op = "GetNextMulticastQueueItemForMulticastGroup" =>
       LET g == apiRet.id
       IN  IF {r \in queue : r.g = g} = {}
             THEN apiRet.err # "nil"
             ELSE /\ apiRet.err = "nil"
                  /\ apiRet.val \in queue
                  /\ apiRet.val.g = g
                  /\ \A r \in queue : r.g = g => apiRet.val.fcnt <= r.fcnt

\* the row returned was inserted after a row of the same group with a
\* higher FCnt, which is still queued
C24_Witness ==
    /\ Succeeded("GetNextMulticastQueueItemForMulticastGroup")
    /\ \E r \in queue : /\ r.g = apiRet.id
                        /\ r.fcnt > apiRet.val.fcnt
                        /\ r.id < apiRet.val.id

\* ------------------------------------------------------------------- C25
\* C25: GetMaxEmitAtTimeSinceGPSEpochForMulticastGroup returns the largest
\* emission time of the rows queued for the group, and 0 when the group has
\* no row or no row with an emission time.  The call leaves the store as it
\* is, so in the state it returns in the queue is the queue it read.
C25_MaxEmitOrZero ==
    apiRet.op = "GetMaxEmitAtTimeSinceGPSEpochForMulticastGroup" =>
       LET g  == apiRet.id
           es == {r.emit : r \in {x \in queue : x.g = g /\ x.emit # NullEmit}}
       IN  /\ apiRet.err = "nil"
           /\ es = {} => apiRet.val = 0
           /\ es # {} => /\ apiRet.val \in es
                         /\ \A e \in es : e <= apiRet.val

\* the maximum returned is that of a group with two different emission
\* times queued
C25_Witness ==
    /\ Succeeded("GetMaxEmitAtTimeSinceGPSEpochForMulticastGroup")
    /\ \E r, o \in queue : /\ r.g = apiRet.id /\ o.g = apiRet.id
                           /\ o.emit # NullEmit
                           /\ o.emit < r.emit
                           /\ r.emit = apiRet.val

\* ------------------------------------------------------------------- C26
\* C26: a DeleteMulticastQueueItem(group, fCnt) that succeeds removes the
\* queued rows of that group with that FCnt and nothing else: the rows of
\* the group with another FCnt, the rows of the other groups and the
\* groups themselves stay as they were.
C26_DeleteItemOnly ==
    [][\A g \in Groups, f \in StoreFCnts :
         (StoreDeleteQueueItem(g, f) /\ apiRet'.err = "nil") =>
            /\ \E r \in queue : r.g = g /\ r.fcnt = f
            /\ queue' = {r \in queue : ~(r.g = g /\ r.fcnt = f)}
            /\ UNCHANGED <<mg, deviceMulticastGroup>>]_vars

\* an item was deleted and a row of the same group, with the other FCnt,
\* is still queued
C26_Witness ==
    /\ Succeeded("DeleteMulticastQueueItem")
    /\ apiRet.n >= 1
    /\ \E r \in queue : r.g = apiRet.id

\* ------------------------------------------------------------------- C27
\* C27: after a FlushMulticastQueueForMulticastGroup that succeeds the group
\* has no queue row, and the queue rows of the other groups, the group rows
\* (FCnt included) and the device memberships are as they were.
C27_FlushOnlyTheGroup ==
    [][\A g \in Groups :
         (StoreFlushQueue(g) /\ apiRet'.err = "nil") =>
            /\ GetMulticastQueueItemsForMulticastGroupOrdered(queue', g) = {<<>>}
            /\ {r \in queue' : r.g # g} = {r \in queue : r.g # g}
            /\ UNCHANGED <<mg, deviceMulticastGroup>>]_vars

\* the queue of a group with a member device was flushed and a row of the
\* other group is still queued
C27_Witness ==
    /\ Succeeded("FlushMulticastQueueForMulticastGroup")
    /\ apiRet.n >= 1
    /\ mg[apiRet.id].exists
    /\ GetDevEUIsForMulticastGroup(deviceMulticastGroup, apiRet.id) # {}
    /\ \E r \in queue : r.g # apiRet.id

\* ------------------------------------------------------------------- C28
\* C28: the memberships are a set of (device, group) pairs. After an
\* AddDeviceToMulticastGroup(d, g) that succeeds the groups of d contain g
\* and the devices of g contain d; after a RemoveDeviceFromMulticastGroup
\* that succeeds neither does; both leave every other pair as it was, and a
\* remove of a pair that is not a membership returns ErrDoesNotExist and
\* changes nothing. The two lists return the pairs of the table.
C28_MembershipIsASet ==
    [][\A d \in Devices, g \in Groups :
         LET pair   == DeviceMulticastGroup(g, d)
             groups == GetMulticastGroupsForDevEUI(deviceMulticastGroup', d)
             devs   == GetDevEUIsForMulticastGroup(deviceMulticastGroup', g)
         IN  /\ (StoreAddDevice(d, g) /\ apiRet'.err = "nil") =>
                   /\ g \in groups /\ d \in devs
                   /\ deviceMulticastGroup' \ {pair}
                         = deviceMulticastGroup \ {pair}
             /\ (StoreRemoveDevice(d, g) /\ apiRet'.err = "nil") =>
                   /\ pair \in deviceMulticastGroup
                   /\ g \notin groups /\ d \notin devs
                   /\ deviceMulticastGroup' \ {pair}
                         = deviceMulticastGroup \ {pair}
             /\ (StoreRemoveDevice(d, g) /\ pair \notin deviceMulticastGroup) =>
                   apiRet'.err = "ErrDoesNotExist" /\ UNCHANGED store
             /\ StoreGroupsForDevEUI(d) =>
                   apiRet'.val = {x \in Groups :
                                    DeviceMulticastGroup(x, d) \in deviceMulticastGroup}
             /\ StoreDevEUIsForGroup(g) =>
                   apiRet'.val = {x \in Devices :
                                    DeviceMulticastGroup(g, x) \in deviceMulticastGroup}]_vars

\* a device was removed from a group while a membership of the other group
\* and a membership of the other device stay in the table
C28_Witness ==
    /\ Succeeded("RemoveDeviceFromMulticastGroup")
    /\ \E m \in deviceMulticastGroup : m[1] # apiRet.id
    /\ \E m \in deviceMulticastGroup : m[1] = apiRet.id

\* ------------------------------------------------------------------- C29
\* C29: adding a device to a group or removing it leaves every queued row,
\* and the row a dispatcher has in hand, as it was; no step rewrites a
\* queued row, and the frame the dispatcher sends for a row goes to the
\* gateway the row has carried in the queue since it was inserted.
C29_RowsKeepTheirGateway ==
    [][/\ \A d \in Devices, g \in Groups :
            (StoreAddDevice(d, g) \/ StoreRemoveDevice(d, g)) =>
               queue' = queue /\ disp' = disp
       /\ \A r \in queue : \A o \in queue' : o.id = r.id => o = r
       /\ \A t \in Dispatchers :
            DispSend(t) =>
               \E r \in queue : /\ r = disp[t].qi
                                /\ setTXInfo(disp[t].qi).MAC = r.gw]_vars

\* a device was removed from a group while the open tick of the dispatcher
\* has sent a row of that group to the second gateway
C29_Witness ==
    /\ Succeeded("RemoveDeviceFromMulticastGroup")
    /\ \E t \in Dispatchers : \E r \in queue :
          /\ r.id \in disp[t].sent
          /\ r.g = apiRet.id
          /\ r.gw = NumGateways

\* ------------------------------------------------------------------- C30
\* the devices of rx that none of the gateways of s[1..n] covers
UncoveredAfter(rx, s, n) ==
    {d \in DOMAIN rx : \A i \in 1..n : rx[d][s[i]] = NoRX}

\* gateway a is the one the greedy rule names for the uncovered devices U:
\* no other gateway covers more of U, none that covers as many has a higher
\* aggregate RSSI, and none that ties on both has a smaller id
GreedyChoice(rx, U, a) ==
    \A b \in CoverGateways \ {a} :
       LET ca == Cardinality(Covers(rx, a, U))
           cb == Cardinality(Covers(rx, b, U))
           ra == AggregateRSSI(rx, a, Covers(rx, a, U))
           rb == AggregateRSSI(rx, b, Covers(rx, b, U))
       IN  /\ cb <= ca
           /\ cb = ca => rb <= ra
           /\ (cb = ca /\ rb = ra) => a < b

\* C30: when every input device has a fresh reception the selector returns
\* a gateway set that covers every device and is the set the greedy rule
\* builds (each pick covers the most still-uncovered devices, then has the
\* highest aggregate RSSI, then the smallest gateway id, and picking stops
\* when no device is uncovered); when a device has no fresh reception it
\* fails with "device unreachable".
C30_GreedyCover ==
    apiRet.op = "GetMinimumGatewaySet" =>
       LET rx  == apiRet.val.rx
           gws == apiRet.val.gws
       IN  IF \E d \in DOMAIN rx : \A gw \in CoverGateways : rx[d][gw] = NoRX
             THEN apiRet.err = "device unreachable"
             ELSE /\ apiRet.err = "nil"
                  /\ \A d \in DOMAIN rx : \E gw \in gws : rx[d][gw] # NoRX
                  /\ \E s \in Orderings(gws) :
                        \A i \in 1..Len(s) :
                           /\ UncoveredAfter(rx, s, i - 1) # {}
                           /\ GreedyChoice(rx, UncoveredAfter(rx, s, i - 1), s[i])

\* three devices were covered with two gateways, the first of them picked
\* for its aggregate RSSI against a gateway with a smaller id that covers
\* as many devices
C30_Witness ==
    /\ Succeeded("GetMinimumGatewaySet")
    /\ Cardinality(DOMAIN apiRet.val.rx) = NumCoverDevices
    /\ Cardinality(apiRet.val.gws) = 2
    /\ \E a \in apiRet.val.gws : \E b \in CoverGateways \ apiRet.val.gws :
          /\ b < a
          /\ Cardinality(Covers(apiRet.val.rx, a, DOMAIN apiRet.val.rx)) = 2
          /\ Cardinality(Covers(apiRet.val.rx, b, DOMAIN apiRet.val.rx)) = 2
          /\ \A c \in apiRet.val.gws \ {a} :
                Cardinality(Covers(apiRet.val.rx, c, DOMAIN apiRet.val.rx)) < 2

\* ------------------------------------------------------------------- C31
\* C31: for every frame handed to the gateway backend, TXInfo.Immediately
\* is true exactly when the queue row has no emission time,
\* TXInfo.TimeSinceGPSEpoch is present exactly when the row has one and is
\* then equal to it, and TXInfo.MAC is the gateway stored in the row.
C31_TXInfoFollowsTheRow ==
    [][\A t \in Dispatchers :
         DispSend(t) =>
            \E r \in queue :
               /\ r.id = disp[t].qi.id
               /\ setTXInfo(disp[t].qi).Immediately = (r.emit = NullEmit)
               /\ (setTXInfo(disp[t].qi).TimeSinceGPSEpoch # NullEmit)
                     = (r.emit # NullEmit)
               /\ r.emit # NullEmit =>
                     setTXInfo(disp[t].qi).TimeSinceGPSEpoch = r.emit
               /\ setTXInfo(disp[t].qi).MAC = r.gw]_vars

\* the open tick of a dispatcher has sent the frame of a row that carries
\* an emission time
C31_Witness ==
    \E t \in Dispatchers : \E r \in queue :
       /\ r.id \in disp[t].sent
       /\ r.emit # NullEmit
       /\ mg[r.g].GroupType = "B"

\* ------------------------------------------------------------------- C32
\* the step is one of the tasks of HandleScheduleNextQueueItem run by t
TaskStep(t) ==
    \/ DispGetNext(t)
    \/ DispRemove(t)
    \/ DispAbortOversize(t)
    \/ DispSend(t)

C33_ClassBNotDueAtEnqueue ==
    [][\A e \in Enqueuers, g \in Groups :
         (EnqueueStep(e, g) /\ mg[g].GroupType = "B") =>
            /\ \A r \in queue' \ queue :
                  /\ r.emit # NullEmit
                  /\ r.emit > now + 2 * SchedulerInterval
                  /\ ~QueueItemMatches(mg'[g], r, now')
            /\ {r \in queue' : r.g = g} = queue' \ queue =>
                  g \notin GroupsWithQueueItems(mg', queue', now')]_vars

\* the queue of a Class-B group holds nothing but the rows of its latest
\* enqueue, and the select does not return the group
C33_Witness ==
    \E g \in Groups :
       /\ mg[g].exists /\ mg[g].GroupType = "B"
       /\ \E r \in queue : r.g = g
       /\ \A r \in queue : r.g = g =>
             /\ r.fcnt = mg[g].FCnt - 1
             /\ r.emit > now + 2 * SchedulerInterval
       /\ g \notin Dispatchable

\* ------------------------------------------------------------------- C34
\* C34: whenever a dispatcher hands the head row of a Class-B group to the
\* gateway backend, that row carries an emission time and the time is at
\* most now + 2 scheduler intervals. (The clock at the send is not before
\* the clock at the select, so a row due at the select is due at the send.)
C34_SentClassBRowIsDue ==
    [][\A t \in Dispatchers :
         (DispSend(t) /\ mg[disp[t].cur].GroupType = "B") =>
            /\ disp[t].qi.emit # NullEmit
            /\ disp[t].qi.emit <= now + 2 * SchedulerInterval]_vars

\* ------------------------------------------------------------------- C35
\* dispatcher t sees no queue row of group g
EmptyFor(t, g) == {r \in queue : r.g = g /\ r.id \notin disp[t].del} = {}

\* C35: when the per-group step runs for a group whose queue is empty, it
\* returns an error: it goes on to the delete and the send only with a row
\* of that group in hand, and the step that finds the queue empty sends no
\* frame, deletes no row and ends the tick, whose transaction is rolled
\* back with nothing removed from the store.
C35_EmptyQueueIsAnError ==
    [][\A t \in Dispatchers :
         (disp[t].pc = "next" /\ disp'[t] # disp[t] /\ cancels' = cancels) =>
            \/ /\ disp'[t].pc = "remove"
               /\ ~EmptyFor(t, disp'[t].cur)
               /\ disp'[t].qi \in queue
               /\ disp'[t].qi.g = disp'[t].cur
               /\ disp'[t].del = disp[t].del
               /\ disp'[t].sent = disp[t].sent
            \/ /\ \E g \in disp[t].todo : EmptyFor(t, g)
               /\ disp'[t] = IdleDisp
               /\ queue' = queue
               /\ mg' = mg
               /\ hiSent' = hiSent
               /\ sendFails' = sendFails
               /\ \A g \in Groups : lock'[g] # t]_vars

\* a tick that has sent the row of one group is about to run the step for
\* another group it selected, whose queue has been flushed since
C35_Witness ==
    \E t \in Dispatchers :
       /\ disp[t].pc = "next"
       /\ disp[t].sent # {}
       /\ \E g \in disp[t].todo : mg[g].exists /\ EmptyFor(t, g)

\* ------------------------------------------------------------------- C36
\* C36: FlushMulticastQueueForMulticastGroup on a group with no queue row
\* and DeleteMulticastQueueItem for a (group, FCnt) with no queue row
\* return ErrDoesNotExist and leave the store unchanged; a flush that
\* succeeds leaves the group without queue rows, so a second flush right
\* after it returns ErrDoesNotExist.
C36_NothingToDeleteIsNotFound ==
    [][\A g \in Groups :
         /\ (StoreFlushQueue(g) /\ {r \in queue : r.g = g} = {}) =>
               apiRet'.err = "ErrDoesNotExist" /\ UNCHANGED store
         /\ (StoreFlushQueue(g) /\ apiRet'.err = "nil") =>
               {r \in queue' : r.g = g} = {}
         /\ \A f \in StoreFCnts :
               (StoreDeleteQueueItem(g, f)
                  /\ {r \in queue : r.g = g /\ r.fcnt = f} = {}) =>
                  apiRet'.err = "ErrDoesNotExist" /\ UNCHANGED store]_vars

\* a flush of a group whose rows are gone returned ErrDoesNotExist while a
\* row of the other group is queued
C36_Witness ==
    /\ apiRet.op = "FlushMulticastQueueForMulticastGroup"
    /\ apiRet.err = "ErrDoesNotExist"
    /\ mg[apiRet.id].exists
    /\ nextID > MaxRows
    /\ \E r \in queue : r.g # apiRet.id

\* ------------------------------------------------------------------- C37
\* the ids of the queued rows
QueuedIDs == {r.id : r \in queue}

\* C37: under fair dispatcher ticks and advancing time, with no flush, no
\* group deletion and no lasting failure, every queued row is eventually
\* removed from the queue, for Class-C and Class-B groups and for groups
\* whose type UpdateMulticastGroup changed while rows were queued.
C37_EveryRowLeavesTheQueue ==
    \A id \in 1..MaxRows : (id \in QueuedIDs) ~> (id \notin QueuedIDs)

====
